---- MODULE Spec2Model ----
(***************************************************************************)
(* go_rasp_monitor: the full dashboard (src/main.go, the program with      *)
(* gauges, a CPU history and the scrolling process list) as a state        *)
(* machine: one action per event the EventLoop's select can take, plus the *)
(* two ways main() can start.  The process-list function of the compact    *)
(* three-view program (updateProcessView) is modelled next to the full     *)
(* dashboard's updateAllProcessList.                                       *)
(*                                                                         *)
(* Conventions                                                             *)
(*  - Go slices are 0-based; a table is a TLA+ sequence, so Go's           *)
(*    AllProcesses[i] is AllProcesses[i+1] here.  selectedProcess,         *)
(*    startIdx and endIdx keep their Go (0-based) values.                  *)
(*  - percentages are integers; the uint64 network counters are kept       *)
(*    modulo CounterModulus (TLC integers are 32 bits wide).               *)
(*  - a widget's Rows are a sequence of tuples, one per emitted row:       *)
(*    <<"No processes found">>, <<"header">>, <<"separator">>,             *)
(*    <<"row", PID, highlighted>>.                                         *)
(***************************************************************************)
EXTENDS Integers, Sequences, FiniteSets, TLC

VARIABLES
    pc,               \* where main() is: "main", "loop", "exit", "fatal", "panic"
    display,          \* the termui display handle: "none", "open", "closed"
    cpuHistory,       \* Dashboard.cpuHistory
    prevNetSent,      \* Dashboard.prevNetSent
    prevNetRecv,      \* Dashboard.prevNetRecv
    selectedProcess,  \* Dashboard.selectedProcess
    listRect,         \* allProcessList rectangle, <<y1, y2>> of its SetRect
    listRows,         \* allProcessList.Rows
    netRows,          \* netList.Rows
    startIdx,         \* updateAllProcessList's local startIdx, as last computed
    endIdx,           \* updateAllProcessList's local endIdx, as last computed
    tableLength,      \* len(stats.AllProcesses) of the snapshot the last handler fetched
    screen,           \* the allProcessList rows last drawn by ui.Render
    lastEvent,        \* the event the loop handled last
    redrawn,          \* whether that handler called Render
    pushes,           \* number of UpdateStats calls so far, counted up to the environment's limit
    ticker,           \* main's time.Ticker: ticks in its channel, ticks fallen due, ticks received
    host,             \* the machine the readings come from, where a specification draws it
    snapshot,         \* what the sampling function under study returned
    currentView,      \* the compact program's Dashboard.currentView
    script            \* the Wi-Fi/AP toggle script's world: state file, radio, output, runs

vars == <<pc, display, cpuHistory, prevNetSent, prevNetRecv, selectedProcess,
          listRect, listRows, netRows, startIdx, endIdx, tableLength, screen,
          lastEvent, redrawn, pushes, ticker, host, snapshot,
          currentView, script>>

---------------------------------------------------------------------------
(* Bounds of the model *)

\* longest process table the environment returns
MaxProcs == 11

\* UpdateStats calls after which the model takes no further refresh
MaxRefresh == 3

\* longest table and largest cursor the window computation is called on
MaxWindowTable == 30

\* the network counters are kept modulo this (uint64 in the source)
CounterModulus == 65536

\* refreshes the history specification takes after the buffer holds only samples
MaxExtraPushes == 3

\* ticks the ticker produces before the model stops it
MaxTicks == 4

\* the most ticks that fall due while one refresh runs
MaxLate == 2

\* longest process listing getAllProcesses is called on
MaxListing == 3

\* runs of the toggle script
MaxRuns == 3

\* connections of the one process whose ports are extracted
MaxConnections == 4

(* Program constants *)

historySize == 50

\* the step of <PageUp> and <PageDown>
PageStep == 10

\* rows updateAllProcessList puts before the process rows
HeaderRows == 2

\* visibleHeight of the compact program's updateProcessView
CompactVisibleHeight == 27

\* capacity of the channel time.NewTicker gives the ticker
TickerBuffer == 1

---------------------------------------------------------------------------
(* Helpers *)

Min(a, b) == IF a < b THEN a ELSE b
Max(a, b) == IF a > b THEN a ELSE b

\* Go's integer division truncates toward zero
GoDiv(a, b) == IF a >= 0 THEN a \div b ELSE -((-a) \div b)

RECURSIVE SumSeq(_)
SumSeq(s) == IF s = <<>> THEN 0 ELSE Head(s) + SumSeq(Tail(s))

calculateAverage(values) ==
    IF Len(values) = 0 THEN 0 ELSE SumSeq(values) \div Len(values)

\* bytesToKB / bytesToMB divide in floating point: kept as an exact fraction
bytesToKB(bytes) == [num |-> bytes, den |-> 1024]
bytesToMB(bytes) == [num |-> bytes, den |-> 1024 * 1024]

---------------------------------------------------------------------------
(* The environment: what getSystemStats() can return *)

\* a process table as getAllProcesses returns it: CPU non-increasing
Table(n) == [i \in 1..n |-> [PID |-> i, CPU |-> n - i]]

\* table lengths the environment returns: empty, short, the scenarios' 5, and
\* one longer than a page step
TableLengths == {0, 2, 5, MaxProcs}

\* the scalar readings of an idle machine: every core at 0%, no traffic yet
IdleReading == [CPUPercent |-> <<0, 0, 0, 0>>, NetSent |-> 0, NetRecv |-> 0]

\* the scalar readings of one sample; the first is the sample whose
\* sub-readings all failed (zero values)
Readings ==
    { [CPUPercent |-> <<>>,       NetSent |-> 0,    NetRecv |-> 0],
      [CPUPercent |-> <<40, 60>>, NetSent |-> 1000, NetRecv |-> 3000],
      [CPUPercent |-> <<80>>,     NetSent |-> 1500, NetRecv |-> 2000] }

\* getSystemStats: one snapshot from the readings and the process table
getSystemStats(r, n) ==
    [CPUPercent |-> r.CPUPercent, NetSent |-> r.NetSent, NetRecv |-> r.NetRecv,
     AllProcesses |-> Table(n)]

\* An environment is the set of snapshots getSystemStats can return, the number
\* of refreshes the model counts, and whether it stops refreshing there.
\* TableEnv: the table length changes arbitrarily, the scalars stay idle.
TableEnv ==
    [ snapshots |-> { getSystemStats(IdleReading, n) : n \in TableLengths },
      limit |-> MaxRefresh,
      capped |-> FALSE ]

\* SamplingEnv: the scalars change arbitrarily, the table stays short.
SamplingEnv ==
    [ snapshots |-> { getSystemStats(r, n) : r \in Readings, n \in {0, 2} },
      limit |-> MaxRefresh,
      capped |-> TRUE ]

\* terminal heights a <Resize> event reports
ResizeHeights == {13, 27}

---------------------------------------------------------------------------
(* Widget geometry *)

\* InitWidgets: allProcessList.SetRect(0, 20, 100, 50)
InitialListRect == <<20, 50>>

\* handleResize: allProcessList.SetRect(0, 9+infoNetHeight, width, height-4)
ResizedListRect(height) ==
    LET infoNetHeight == GoDiv(height - 13, 2)
    IN  <<9 + infoNetHeight, height - 4>>

\* Inner.Dy() of a bordered widget after SetRect(_, y1, _, y2): termui puts the
\* corners in order, shrinks the rectangle by one on each side and puts the
\* corners of the result in order again
InnerDy(rect) ==
    LET top    == IF rect[1] > rect[2] THEN rect[2] ELSE rect[1]
        bottom == IF rect[1] > rect[2] THEN rect[1] ELSE rect[2]
        lo     == top + 1
        hi     == bottom - 1
    IN  IF lo > hi THEN lo - hi ELSE hi - lo

---------------------------------------------------------------------------
(* updateCPUChart *)

\* a push that forgets to drop the oldest sample
PushHistoryNoEvict(history, value) == Append(history, value)

\* a buffer that puts the newest value first and drops the last
PushHistoryNewestFirst(history, value) ==
    <<value>> \o SubSeq(history, 1, Len(history) - 1)

PushHistory(history, value) == Append(Tail(history), value)

updateCPUChart(history, stats) ==
    PushHistory(history, calculateAverage(stats.CPUPercent))

(* updateNetworkInfo *)

\* a difference taken in signed arithmetic of unbounded width
NetDiffSigned(current, previous) == current - previous

\* stats.NetSent - d.prevNetSent on unsigned integers of the counters' width
NetDiff(current, previous) == (current - previous) % CounterModulus

\* a rate taken against a baseline that is never moved
updateNetworkInfoKeepBaseline(stats, prevSent, prevRecv) ==
    [ prevNetSent |-> prevSent,
      prevNetRecv |-> prevRecv,
      Rows |-> << bytesToMB(stats.NetSent), bytesToMB(stats.NetRecv),
                  bytesToKB(NetDiff(stats.NetSent, prevSent)),
                  bytesToKB(NetDiff(stats.NetRecv, prevRecv)) >> ]

updateNetworkInfo(stats, prevSent, prevRecv) ==
    [ prevNetSent |-> stats.NetSent,
      prevNetRecv |-> stats.NetRecv,
      Rows |-> << bytesToMB(stats.NetSent), bytesToMB(stats.NetRecv),
                  bytesToKB(NetDiff(stats.NetSent, prevSent)),
                  bytesToKB(NetDiff(stats.NetRecv, prevRecv)) >> ]

---------------------------------------------------------------------------
(* NewDashboard *)

\* a history created one slot short
NewHistoryShort == [i \in 1..(historySize - 1) |-> 0]

\* make([]float64, historySize): historySize zeros
NewHistory == [i \in 1..historySize |-> 0]

---------------------------------------------------------------------------
(* updateAllProcessList *)

\* "Ensure selected process is within bounds"
ClampSelected(sel, totalProcesses) ==
    LET upper == IF sel >= totalProcesses THEN totalProcesses - 1 ELSE sel
    IN  IF upper < 0 THEN 0 ELSE upper

\* visibleHeight without its lower bound
VisibleHeightUnclamped(innerDy) == innerDy - HeaderRows

\* visibleHeight := Inner.Dy() - 2, at least 1
VisibleHeight(innerDy) ==
    LET visibleHeight == innerDy - HeaderRows
    IN  IF visibleHeight < 1 THEN 1 ELSE visibleHeight

\* a window start one row too far back
WindowStartOffByOne(sel, visibleHeight) ==
    IF sel >= visibleHeight THEN sel - visibleHeight ELSE 0

\* "Keep selected item in view"
WindowStart(sel, visibleHeight) ==
    IF sel >= visibleHeight THEN sel - visibleHeight + 1 ELSE 0

\* a window end not cut at the end of the table
WindowEndUnclamped(start, visibleHeight, totalProcesses) == start + visibleHeight

WindowEnd(start, visibleHeight, totalProcesses) ==
    LET end == start + visibleHeight
    IN  IF end > totalProcesses THEN totalProcesses ELSE end

\* the closing "if startIdx < 0"
ClampStart(start) == IF start < 0 THEN 0 ELSE start

\* one process row; reading past the slice is Go's index-out-of-range panic
ProcessRow(procs, i, sel) ==
    IF i + 1 \in DOMAIN procs
    THEN <<"row", procs[i + 1].PID, i = sel>>
    ELSE <<"index out of range">>

ProcessRows(procs, start, end, sel) ==
    [k \in 1..(end - start) |-> ProcessRow(procs, start + k - 1, sel)]

\* updateAllProcessList without its empty-table return
updateAllProcessListNoEmptyCheck(sel, stats, rect, oldStart, oldEnd) ==
    LET totalProcesses == Len(stats.AllProcesses)
        newSel        == ClampSelected(sel, totalProcesses)
        visibleHeight == VisibleHeight(InnerDy(rect))
        start0        == WindowStart(newSel, visibleHeight)
        end           == WindowEnd(start0, visibleHeight, totalProcesses)
        start         == ClampStart(start0)
    IN  [ selectedProcess |-> newSel,
          Rows |-> << <<"header">>, <<"separator">> >>
                   \o ProcessRows(stats.AllProcesses, start, end, newSel),
          startIdx |-> start, endIdx |-> end ]

\* the whole function: the new selectedProcess, Rows and the window
updateAllProcessList(sel, stats, rect, oldStart, oldEnd) ==
    LET totalProcesses == Len(stats.AllProcesses)
        newSel        == ClampSelected(sel, totalProcesses)
        visibleHeight == VisibleHeight(InnerDy(rect))
        start0        == WindowStart(newSel, visibleHeight)
        end           == WindowEnd(start0, visibleHeight, totalProcesses)
        start         == ClampStart(start0)
    IN  IF totalProcesses = 0
        THEN [ selectedProcess |-> sel,
               Rows |-> << <<"No processes found">> >>,
               startIdx |-> oldStart, endIdx |-> oldEnd ]
        ELSE [ selectedProcess |-> newSel,
               Rows |-> << <<"header">>, <<"separator">> >>
                        \o ProcessRows(stats.AllProcesses, start, end, newSel),
               startIdx |-> start, endIdx |-> end ]

(* updateProcessView: the process list of the compact three-view program *)

\* startIdx := selectedProcess, pulled back so that a full window fits
CompactWindowStart(sel, visibleHeight, totalProcesses) ==
    LET start == IF sel > totalProcesses - visibleHeight
                 THEN totalProcesses - visibleHeight ELSE sel
    IN  IF start < 0 THEN 0 ELSE start

updateProcessView(sel, stats, oldStart, oldEnd) ==
    LET totalProcesses == Len(stats.AllProcesses)
        newSel        == ClampSelected(sel, totalProcesses)
        visibleHeight == CompactVisibleHeight
        start         == CompactWindowStart(newSel, visibleHeight, totalProcesses)
        end           == WindowEnd(start, visibleHeight, totalProcesses)
    IN  IF totalProcesses = 0
        THEN [ selectedProcess |-> sel,
               Rows |-> << <<"No processes found">> >>,
               startIdx |-> oldStart, endIdx |-> oldEnd ]
        ELSE [ selectedProcess |-> newSel,
               Rows |-> << <<"header">>, <<"separator">> >>
                        \o ProcessRows(stats.AllProcesses, start, end, newSel),
               startIdx |-> start, endIdx |-> end ]

Panicked(rows) == \E k \in DOMAIN rows : rows[k] = <<"index out of range">>

---------------------------------------------------------------------------
(* UpdateStats followed by Render: the refresh every tick and "r" performs *)

\* the count of UpdateStats calls, which stops at the environment's limit
CountPush(Env) == IF pushes < Env.limit THEN pushes + 1 ELSE pushes

UpdateStats(stats) ==
    LET net  == updateNetworkInfo(stats, prevNetSent, prevNetRecv)
        list == updateAllProcessList(selectedProcess, stats, listRect, startIdx, endIdx)
    IN  /\ cpuHistory' = updateCPUChart(cpuHistory, stats)
        /\ prevNetSent' = net.prevNetSent
        /\ prevNetRecv' = net.prevNetRecv
        /\ netRows' = net.Rows
        /\ selectedProcess' = list.selectedProcess
        /\ listRows' = list.Rows
        /\ startIdx' = list.startIdx
        /\ endIdx' = list.endIdx
        /\ tableLength' = Len(stats.AllProcesses)
        /\ pc' = IF Panicked(list.Rows) THEN "panic" ELSE "loop"

\* ui.Init and ui.Close: the display handle is taken and given back
uiInit(handle) == "open"

\* a return from main that leaves the display as it is
uiCloseSkipped(handle) == handle

uiClose(handle) == "closed"

\* Render draws the widgets' current rows
Render == screen' = listRows
RenderAfterUpdate == screen' = listRows'

---------------------------------------------------------------------------
(* main *)

\* no ticker yet, or one whose ticks the specification does not follow
NoTicker == [pending |-> 0, produced |-> 0, received |-> 0]

\* the host and the snapshot where the specification does not follow them
NoHost == [cpuBase |-> 0]
NoSnapshot == <<>>

\* the toggle script has not run and its state file does not exist
NoScript ==
    [ stateFile |-> [exists |-> FALSE, content |-> ""], log |-> <<>> ]

\* what the event handlers of the dashboard never write
ProbeFrame == UNCHANGED <<host, snapshot, currentView, script>>

Init ==
    /\ pc = "main"
    /\ display = "none"
    /\ cpuHistory = <<>>
    /\ prevNetSent = 0
    /\ prevNetRecv = 0
    /\ selectedProcess = 0
    /\ listRect = <<0, 0>>
    /\ listRows = <<>>
    /\ netRows = <<>>
    /\ startIdx = 0
    /\ endIdx = 0
    /\ tableLength = 0
    /\ screen = <<>>
    /\ lastEvent = "none"
    /\ redrawn = FALSE
    /\ pushes = 0
    /\ ticker = NoTicker
    /\ host = NoHost
    /\ snapshot = NoSnapshot
    /\ currentView = 0
    /\ script = NoScript

\* a failure report that returns, so that main goes on to the loop
logReturns(position) == "loop"

\* log.Fatalf: the message is written and the process exits
logFatalf(position) == "fatal"

\* ui.Init fails: log.Fatalf
InitFails ==
    /\ pc = "main"
    /\ pc' = logFatalf(pc)
    /\ UNCHANGED <<display, cpuHistory, prevNetSent, prevNetRecv, selectedProcess,
                   listRect, listRows, netRows, startIdx, endIdx, tableLength,
                   screen, lastEvent, redrawn, pushes, ticker>>
    /\ ProbeFrame

\* ui.Init succeeds; NewDashboard, InitWidgets, UpdateStats, Render; the loop starts.
\* (EventLoop's own first getSystemStats is never read: every handler that
\* reads stats assigns it first.)
StartBody(Env) ==
    /\ pc = "main"
    /\ \E stats \in Env.snapshots :
         LET net  == updateNetworkInfo(stats, 0, 0)
             list == updateAllProcessList(0, stats, InitialListRect, 0, 0)
         IN  /\ cpuHistory' = updateCPUChart(NewHistory, stats)
             /\ prevNetSent' = net.prevNetSent
             /\ prevNetRecv' = net.prevNetRecv
             /\ netRows' = net.Rows
             /\ selectedProcess' = list.selectedProcess
             /\ listRows' = list.Rows
             /\ startIdx' = list.startIdx
             /\ endIdx' = list.endIdx
             /\ tableLength' = Len(stats.AllProcesses)
             /\ pc' = IF Panicked(list.Rows) THEN "panic" ELSE "loop"
    /\ display' = uiInit(display)
    /\ listRect' = InitialListRect
    /\ pushes' = 1
    /\ RenderAfterUpdate
    /\ lastEvent' = "start"
    /\ redrawn' = TRUE
    /\ ProbeFrame

\* main when the ticker's channel is not followed
Start(Env) == StartBody(Env) /\ UNCHANGED ticker

---------------------------------------------------------------------------
(* EventLoop: one action per case of the select *)

\* case <-ticker.C
TickBody(Env) ==
    /\ pc = "loop"
    /\ Env.capped => pushes < Env.limit
    /\ \E stats \in Env.snapshots : UpdateStats(stats)
    /\ pushes' = CountPush(Env)
    /\ RenderAfterUpdate
    /\ lastEvent' = "tick"
    /\ redrawn' = TRUE
    /\ UNCHANGED <<display, listRect>>
    /\ ProbeFrame

\* a tick when the ticker's channel is not followed: one is always ready
Tick(Env) == TickBody(Env) /\ UNCHANGED ticker

\* case "r"
RefreshKeyBody(Env) ==
    /\ pc = "loop"
    /\ Env.capped => pushes < Env.limit
    /\ \E stats \in Env.snapshots : UpdateStats(stats)
    /\ pushes' = CountPush(Env)
    /\ RenderAfterUpdate
    /\ lastEvent' = "r"
    /\ redrawn' = TRUE
    /\ UNCHANGED <<display, listRect>>
    /\ ProbeFrame

RefreshKey(Env) == RefreshKeyBody(Env) /\ UNCHANGED ticker

\* a key that takes the counters of the snapshot it fetched for zero and
\* makes them the baseline
NavigationFrameMovesBaseline ==
    /\ prevNetSent' = 0
    /\ prevNetRecv' = 0
    /\ UNCHANGED <<pc, display, cpuHistory, listRect, listRows, netRows, startIdx,
                   endIdx, pushes, ticker, host, snapshot, currentView, script>>

\* what a key that only moves the cursor leaves alone
NavigationFrame ==
    UNCHANGED <<pc, display, cpuHistory, prevNetSent, prevNetRecv, listRect,
                listRows, netRows, startIdx, endIdx, pushes, ticker, host, snapshot, currentView, script>>

\* <Up> without its test for the first row
UpTargetUnguarded(sel) == sel - 1

\* the cursor after each key
UpTarget(sel) == IF sel > 0 THEN sel - 1 ELSE sel

DownTarget(sel, length) == IF sel < length - 1 THEN sel + 1 ELSE sel

PageUpTarget(sel) == IF sel - PageStep < 0 THEN 0 ELSE sel - PageStep

PageDownTarget(sel, length) ==
    IF sel + PageStep >= length THEN length - 1 ELSE sel + PageStep

\* <End> landing one past the last row
EndTargetPastLast(sel, length) == IF length > 0 THEN length ELSE sel

EndTarget(sel, length) == IF length > 0 THEN length - 1 ELSE sel

\* case "<Up>"
MoveUp ==
    /\ pc = "loop"
    /\ selectedProcess' = UpTarget(selectedProcess)
    /\ redrawn' = (selectedProcess > 0)
    /\ IF selectedProcess > 0 THEN Render ELSE UNCHANGED screen
    /\ lastEvent' = "<Up>"
    /\ UNCHANGED tableLength
    /\ NavigationFrame

\* case "<Down>"
MoveDown(Env) ==
    /\ pc = "loop"
    /\ \E stats \in Env.snapshots :
         LET length == Len(stats.AllProcesses)
         IN  /\ selectedProcess' = DownTarget(selectedProcess, length)
             /\ redrawn' = (selectedProcess < length - 1)
             /\ IF selectedProcess < length - 1 THEN Render ELSE UNCHANGED screen
             /\ tableLength' = length
    /\ lastEvent' = "<Down>"
    /\ NavigationFrame

\* case "<PageUp>"
PageUp ==
    /\ pc = "loop"
    /\ selectedProcess' = PageUpTarget(selectedProcess)
    /\ Render
    /\ redrawn' = TRUE
    /\ lastEvent' = "<PageUp>"
    /\ UNCHANGED tableLength
    /\ NavigationFrame

\* case "<PageDown>"
PageDown(Env) ==
    /\ pc = "loop"
    /\ \E stats \in Env.snapshots :
         LET length == Len(stats.AllProcesses)
         IN  /\ selectedProcess' = PageDownTarget(selectedProcess, length)
             /\ tableLength' = length
    /\ Render
    /\ redrawn' = TRUE
    /\ lastEvent' = "<PageDown>"
    /\ NavigationFrame

\* case "<Home>"
Home ==
    /\ pc = "loop"
    /\ selectedProcess' = 0
    /\ Render
    /\ redrawn' = TRUE
    /\ lastEvent' = "<Home>"
    /\ UNCHANGED tableLength
    /\ NavigationFrame

\* case "<End>"
End(Env) ==
    /\ pc = "loop"
    /\ \E stats \in Env.snapshots :
         LET length == Len(stats.AllProcesses)
         IN  /\ selectedProcess' = EndTarget(selectedProcess, length)
             /\ tableLength' = length
    /\ Render
    /\ redrawn' = TRUE
    /\ lastEvent' = "<End>"
    /\ NavigationFrame

\* case "<Resize>": handleResize
Resize ==
    /\ pc = "loop"
    /\ \E height \in ResizeHeights : listRect' = ResizedListRect(height)
    /\ Render
    /\ redrawn' = TRUE
    /\ lastEvent' = "<Resize>"
    /\ UNCHANGED <<pc, display, cpuHistory, prevNetSent, prevNetRecv, selectedProcess,
                   listRows, netRows, startIdx, endIdx, tableLength, pushes, ticker>>
    /\ ProbeFrame

\* case "q", "<C-c>": return; main's deferred ui.Close runs
QuitBody ==
    /\ pc = "loop"
    /\ pc' = "exit"
    /\ display' = uiClose(display)
    /\ lastEvent' = "q"
    /\ redrawn' = FALSE
    /\ UNCHANGED <<cpuHistory, prevNetSent, prevNetRecv, selectedProcess, listRect,
                   listRows, netRows, startIdx, endIdx, tableLength, screen, pushes>>
    /\ ProbeFrame

Quit == QuitBody /\ UNCHANGED ticker

Next(Env) ==
    \/ InitFails
    \/ Start(Env)
    \/ Tick(Env)
    \/ RefreshKey(Env)
    \/ MoveUp
    \/ MoveDown(Env)
    \/ PageUp
    \/ PageDown(Env)
    \/ Home
    \/ End(Env)
    \/ Resize
    \/ Quit

\* the dashboard under changing table lengths
NextTables == Next(TableEnv)
Spec == Init /\ [][NextTables]_vars

\* the dashboard under changing scalar readings
NextSampling == Next(SamplingEnv)
SpecSampling == Init /\ [][NextSampling]_vars

---------------------------------------------------------------------------
(* The dashboard on a machine whose load climbs: the k-th sample reads the *)
(* two cores at cpuBase + k - 1 and cpuBase + k + 1 percent, so every      *)
(* pushed average differs from the one before and the buffer's content     *)
(* tells which pushes it holds.                                            *)

\* the load before the first sample
CpuBases == {1, 20}

ClimbingReading(k) ==
    [CPUPercent |-> <<host.cpuBase + k - 1, host.cpuBase + k + 1>>,
     NetSent |-> 0, NetRecv |-> 0]

HistoryEnv ==
    [ snapshots |-> { getSystemStats(ClimbingReading(pushes + 1), 2) },
      limit |-> historySize + MaxExtraPushes,
      capped |-> TRUE ]

InitHistory ==
    /\ pc = "main"
    /\ display = "none"
    /\ cpuHistory = <<>>
    /\ prevNetSent = 0
    /\ prevNetRecv = 0
    /\ selectedProcess = 0
    /\ listRect = <<0, 0>>
    /\ listRows = <<>>
    /\ netRows = <<>>
    /\ startIdx = 0
    /\ endIdx = 0
    /\ tableLength = 0
    /\ screen = <<>>
    /\ lastEvent = "none"
    /\ redrawn = FALSE
    /\ pushes = 0
    /\ ticker = NoTicker
    /\ host \in { [cpuBase |-> b] : b \in CpuBases }
    /\ snapshot = NoSnapshot
    /\ currentView = 0
    /\ script = NoScript

NextHistory == Next(HistoryEnv)
SpecHistory == InitHistory /\ [][NextHistory]_vars

---------------------------------------------------------------------------
(* The EventLoop with the statements of two handlers taken one at a time:  *)
(* the tick (getSystemStats; the chart and network updates; the process    *)
(* list update; Render) and <PageDown> (selectedProcess += 10, then the    *)
(* bound check and Render).  Between the steps pc names the statement the  *)
(* running handler is at; the select is reached again only when the        *)
(* handler has returned.                                                   *)

\* a tick that draws before it updates the process list
TickOrderRenderFirst == <<"tick:push", "tick:render", "tick:list", "loop">>

\* the statements of a tick after getSystemStats, in the order of the source,
\* and the select they return to
TickOrder == <<"tick:push", "tick:list", "tick:render", "loop">>

\* the statement after the one at position
AfterStatement(position) ==
    TickOrder[1 + CHOOSE i \in 1..(Len(TickOrder) - 1) : TickOrder[i] = position]

\* a select that also takes an event while a handler is running
AtSelectOrBusy == pc \in {"loop", "tick:list", "<PageDown>:clamp"}

\* the loop is at its select
AtSelect == pc = "loop"

\* the handlers whose statements are taken one at a time
SteppedEvents == {"tick", "<PageDown>"}

\* case <-ticker.C, UpdateStats' first statement: the snapshot is fetched
TakeTick(Env) ==
    /\ AtSelect
    /\ Env.capped => pushes < Env.limit
    /\ \E stats \in Env.snapshots : snapshot' = stats
    /\ pc' = TickOrder[1]
    /\ lastEvent' = "tick"
    /\ redrawn' = FALSE
    /\ UNCHANGED <<display, cpuHistory, prevNetSent, prevNetRecv, selectedProcess,
                   listRect, listRows, netRows, startIdx, endIdx, tableLength,
                   screen, pushes, ticker, host, currentView, script>>

\* updateCPUChart and updateNetworkInfo on the fetched snapshot
TickPush(Env) ==
    /\ pc = "tick:push"
    /\ LET net == updateNetworkInfo(snapshot, prevNetSent, prevNetRecv)
       IN  /\ cpuHistory' = updateCPUChart(cpuHistory, snapshot)
           /\ prevNetSent' = net.prevNetSent
           /\ prevNetRecv' = net.prevNetRecv
           /\ netRows' = net.Rows
    /\ pushes' = CountPush(Env)
    /\ pc' = AfterStatement(pc)
    /\ UNCHANGED <<display, selectedProcess, listRect, listRows, startIdx, endIdx,
                   tableLength, screen, lastEvent, redrawn, ticker, host, snapshot, currentView, script>>

\* updateAllProcessList on the fetched snapshot
TickList ==
    /\ pc = "tick:list"
    /\ LET list == updateAllProcessList(selectedProcess, snapshot, listRect,
                                        startIdx, endIdx)
       IN  /\ selectedProcess' = list.selectedProcess
           /\ listRows' = list.Rows
           /\ startIdx' = list.startIdx
           /\ endIdx' = list.endIdx
           /\ pc' = IF Panicked(list.Rows) THEN "panic" ELSE AfterStatement(pc)
    /\ tableLength' = Len(snapshot.AllProcesses)
    /\ UNCHANGED <<display, cpuHistory, prevNetSent, prevNetRecv, listRect, netRows,
                   screen, lastEvent, redrawn, pushes, ticker, host, snapshot, currentView, script>>

\* the tick's d.Render()
TickRender ==
    /\ pc = "tick:render"
    /\ Render
    /\ redrawn' = TRUE
    /\ pc' = AfterStatement(pc)
    /\ UNCHANGED <<display, cpuHistory, prevNetSent, prevNetRecv, selectedProcess,
                   listRect, listRows, netRows, startIdx, endIdx, tableLength,
                   lastEvent, pushes, ticker, host, snapshot, currentView, script>>

\* case "<PageDown>", up to d.selectedProcess += 10
TakePageDown(Env) ==
    /\ AtSelect
    /\ \E stats \in Env.snapshots : tableLength' = Len(stats.AllProcesses)
    /\ selectedProcess' = selectedProcess + PageStep
    /\ pc' = "<PageDown>:clamp"
    /\ lastEvent' = "<PageDown>"
    /\ redrawn' = FALSE
    /\ UNCHANGED <<display, cpuHistory, prevNetSent, prevNetRecv, listRect, listRows,
                   netRows, startIdx, endIdx, screen, pushes, ticker, host, snapshot, currentView, script>>

\* the bound check of <PageDown> and its Render
FinishPageDown ==
    /\ pc = "<PageDown>:clamp"
    /\ selectedProcess' = IF selectedProcess >= tableLength
                              THEN tableLength - 1 ELSE selectedProcess
    /\ Render
    /\ redrawn' = TRUE
    /\ pc' = "loop"
    /\ UNCHANGED <<display, cpuHistory, prevNetSent, prevNetRecv, listRect, listRows,
                   netRows, startIdx, endIdx, tableLength, lastEvent, pushes,
                   ticker, host, snapshot, currentView, script>>

NextSerial ==
    \/ InitFails
    \/ Start(SamplingEnv)
    \/ TakeTick(SamplingEnv)
    \/ TickPush(SamplingEnv)
    \/ TickList
    \/ TickRender
    \/ TakePageDown(SamplingEnv)
    \/ FinishPageDown
    \/ RefreshKey(SamplingEnv)
    \/ MoveUp
    \/ MoveDown(SamplingEnv)
    \/ PageUp
    \/ Home
    \/ End(SamplingEnv)
    \/ Resize
    \/ Quit

SpecSerial == Init /\ [][NextSerial]_vars

---------------------------------------------------------------------------
(* The dashboard with its ticker followed.  time.NewTicker gives the       *)
(* ticker a channel of capacity TickerBuffer; the runtime sends each tick  *)
(* without blocking, so a tick that finds the channel full is dropped.     *)
(* A refresh (getSystemStats walks every process) can take longer than the *)
(* period: up to MaxLate ticks fall due while one runs.  The keys that     *)
(* only move the cursor return before the next tick.                       *)

\* a channel that queues every tick
TickQueued(t) ==
    [t EXCEPT !.produced = @ + 1, !.pending = @ + 1]

\* one period passes: the tick is sent unless the channel is full
TickFallsDue(t) ==
    [t EXCEPT !.produced = @ + 1, !.pending = Min(@ + 1, TickerBuffer)]

RECURSIVE TicksFallDue(_, _)
TicksFallDue(t, k) == IF k = 0 THEN t ELSE TicksFallDue(TickFallsDue(t), k - 1)

\* case <-ticker.C takes one tick out of the channel
ReceiveTick(t) ==
    [t EXCEPT !.pending = @ - 1, !.received = @ + 1]

TickerEnv ==
    [ snapshots |-> { getSystemStats(IdleReading, n) : n \in {0, 2} },
      limit |-> MaxRefresh,
      capped |-> FALSE ]

\* main up to time.NewTicker
TickerStart ==
    /\ StartBody(TickerEnv)
    /\ ticker' = NoTicker

\* the loop waits in its select with nothing to receive and a period passes
TimerFires ==
    /\ pc = "loop"
    /\ ticker.pending < TickerBuffer
    /\ ticker.produced < MaxTicks
    /\ ticker' = TickFallsDue(ticker)
    /\ UNCHANGED <<pc, display, cpuHistory, prevNetSent, prevNetRecv, selectedProcess,
                   listRect, listRows, netRows, startIdx, endIdx, tableLength, screen,
                   lastEvent, redrawn, pushes, host, snapshot, currentView, script>>

\* case <-ticker.C, with the ticks that fall due while the refresh runs
TickerTick ==
    /\ ticker.pending > 0
    /\ TickBody(TickerEnv)
    /\ \E late \in 0..MaxLate :
         /\ ticker.produced + late <= MaxTicks
         /\ ticker' = TicksFallDue(ReceiveTick(ticker), late)

\* case "r", with the ticks that fall due while the refresh runs
TickerRefreshKey ==
    /\ RefreshKeyBody(TickerEnv)
    /\ \E late \in 0..MaxLate :
         /\ ticker.produced + late <= MaxTicks
         /\ ticker' = TicksFallDue(ticker, late)

\* case "q": the deferred ticker.Stop and ui.Close run
TickerQuit == QuitBody /\ UNCHANGED ticker

NextTicker ==
    \/ InitFails
    \/ TickerStart
    \/ TimerFires
    \/ TickerTick
    \/ TickerRefreshKey
    \/ MoveUp
    \/ MoveDown(TickerEnv)
    \/ Home
    \/ End(TickerEnv)
    \/ TickerQuit

SpecTicker == Init /\ [][NextTicker]_vars

---------------------------------------------------------------------------
(* getSystemStats on its own: one call on a host whose sub-readings each   *)
(* succeed or fail and whose process listing is any short sequence.  A     *)
(* host is a record of what each library call returns; the snapshot is a   *)
(* record of the SystemStats fields (the Used and Total fields travel with *)
(* their percentage and are left out).                                     *)

\* the less function given to sort.Slice, reversed
ByCPUAscending(a, b) == a.CPU < b.CPU

\* the less function given to sort.Slice
ByCPUDescending(a, b) == a.CPU > b.CPU

\* sort.Slice with that less function: the slice is left in some order in
\* which no element is less than one before it; the order of elements neither
\* of which is less than the other is not specified, so every such order is
\* an outcome
sortSlice(slice) ==
    { ordered \in { [i \in 1..Len(slice) |-> slice[perm[i]]] :
                       perm \in Permutations(1..Len(slice)) } :
        \A i, j \in 1..Len(slice) : i < j => ~ByCPUDescending(ordered[j], ordered[i]) }

\* the ProcessInfo built for one listed process
ProcessInfo(p) == [PID |-> p.Pid, CPU |-> p.CPUPercent]

\* getAllProcesses: the outcomes of one call
getAllProcesses(h) ==
    IF h.processesErr \/ h.memErr
    THEN { <<>> }
    ELSE sortSlice([i \in 1..Len(h.processes) |-> ProcessInfo(h.processes[i])])

\* getCPUTemperature: the thermal zone file is unreadable, holds no number,
\* or holds millidegrees
getCPUTemperature(h) ==
    IF h.temperature.kind = "number"
    THEN [num |-> h.temperature.value, den |-> 1000]
    ELSE [num |-> 0, den |-> 1000]

\* getSystemStats: the snapshots one call can return
getSystemStatsOf(h) ==
    { [ CPUPercent   |-> IF h.cpuErr THEN <<>> ELSE h.cpu,
        MemPercent   |-> IF h.memErr THEN 0 ELSE h.mem,
        DiskPercent  |-> IF h.diskErr THEN 0 ELSE h.disk,
        Temperature  |-> getCPUTemperature(h),
        Uptime       |-> IF h.hostErr THEN 0 ELSE h.uptime,
        ProcessCount |-> IF h.hostErr THEN 0 ELSE h.procs,
        LoadAvg      |-> IF h.loadErr THEN <<>> ELSE h.load,
        NetSent      |-> IF ~h.netErr /\ Len(h.net) > 0 THEN h.net[1].BytesSent ELSE 0,
        NetRecv      |-> IF ~h.netErr /\ Len(h.net) > 0 THEN h.net[1].BytesRecv ELSE 0,
        AllProcesses |-> table ] : table \in getAllProcesses(h) }

\* a host on which every reading succeeds
HealthyHost ==
    [ cpuBase |-> 0,
      cpu |-> <<40, 60>>,     cpuErr |-> FALSE,
      mem |-> 55,             memErr |-> FALSE,
      disk |-> 70,            diskErr |-> FALSE,
      temperature |-> [kind |-> "number", value |-> 48312],
      uptime |-> 3600, procs |-> 2, hostErr |-> FALSE,
      load |-> <<1, 2, 3>>,   loadErr |-> FALSE,
      net |-> << [BytesSent |-> 1000, BytesRecv |-> 3000] >>, netErr |-> FALSE,
      processes |-> << [Pid |-> 1, CPUPercent |-> 5], [Pid |-> 2, CPUPercent |-> 9] >>,
      processesErr |-> FALSE ]

\* what the thermal zone file can be
ThermalFiles ==
    { [kind |-> "unreadable", value |-> 0], [kind |-> "garbage", value |-> 0],
      [kind |-> "number", value |-> 48312] }

\* hosts on which any subset of the readings fails
FailingHosts ==
    { [HealthyHost EXCEPT !.cpuErr = f[1], !.memErr = f[2], !.diskErr = f[3],
                          !.hostErr = f[4], !.loadErr = f[5], !.netErr = f[6],
                          !.processesErr = f[7], !.temperature = t, !.net = n] :
        f \in [1..7 -> BOOLEAN], t \in ThermalFiles,
        n \in { <<>>, HealthyHost.net } }

\* process listings: every sequence of up to MaxListing processes with pids
\* 1, 2 and CPU 0, 5 (equal pids and equal CPU values included)
ListedProcesses == { [Pid |-> pid, CPUPercent |-> c] : pid \in {1, 2}, c \in {0, 5} }

Listings == UNION { [1..n -> ListedProcesses] : n \in 0..MaxListing }

\* healthy hosts with any listing
ListingHosts == { [HealthyHost EXCEPT !.processes = l] : l \in Listings }

InitSample ==
    /\ pc = "call"
    /\ display = "none"
    /\ cpuHistory = <<>>
    /\ prevNetSent = 0
    /\ prevNetRecv = 0
    /\ selectedProcess = 0
    /\ listRect = <<0, 0>>
    /\ listRows = <<>>
    /\ netRows = <<>>
    /\ startIdx = 0
    /\ endIdx = 0
    /\ tableLength = 0
    /\ screen = <<>>
    /\ lastEvent = "none"
    /\ redrawn = FALSE
    /\ pushes = 0
    /\ ticker = NoTicker
    /\ host \in FailingHosts \cup ListingHosts
    /\ snapshot = NoSnapshot
    /\ currentView = 0
    /\ script = NoScript

CallGetSystemStats ==
    /\ pc = "call"
    /\ snapshot' \in getSystemStatsOf(host)
    /\ pc' = "return"
    /\ lastEvent' = "getSystemStats"
    /\ UNCHANGED <<display, cpuHistory, prevNetSent, prevNetRecv, selectedProcess,
                   listRect, listRows, netRows, startIdx, endIdx, tableLength,
                   screen, redrawn, pushes, ticker, host, currentView, script>>

NextSample == CallGetSystemStats
SpecSample == InitSample /\ [][NextSample]_vars

---------------------------------------------------------------------------
(* The Wi-Fi / access-point toggle script (src/unnamed/part_000).  Its     *)
(* world is the state file and the log of its runs; a run is the whole     *)
(* script: the root check, main, and show_status.  A file is a record      *)
(* [exists, content], the content without its trailing newline, as the     *)
(* command substitution reads it.  A run's log entry keeps what the run    *)
(* found, which mode it went for, the status its mode function returned,   *)
(* the file before and after and the mode show_status printed.             *)

\* what the state file can be before the first run
StateFiles ==
    { [exists |-> FALSE, content |-> ""] } \cup
    { [exists |-> TRUE, content |-> c] : c \in {"wifi", "ap", "", "AP"} }

\* echo mode > "$STATE_FILE"
WriteState(mode) == [exists |-> TRUE, content |-> mode]

\* a reading of the mode in which a missing file counts as access-point mode
get_current_modeMissingIsAp(file) ==
    IF file.exists THEN file.content ELSE "ap"

get_current_mode(file) ==
    IF file.exists THEN file.content ELSE "wifi"

\* a mode function that writes the state whatever its command returned
ModeFunctionAlwaysWrites(file, mode, nmcli, commandOk) ==
    [ file |-> WriteState(mode),
      status |-> IF nmcli /\ ~commandOk THEN 1 ELSE 0 ]

\* enable_ap_mode and enable_wifi_mode have one shape: with nmcli the state
\* is written only when the hotspot / connect command returned 0, otherwise
\* the function returns 1; without nmcli the systemctl commands are not
\* checked and the state is written
ModeFunction(file, mode, nmcli, commandOk) ==
    IF nmcli /\ ~commandOk
    THEN [ file |-> file, status |-> 1 ]
    ELSE [ file |-> WriteState(mode), status |-> 0 ]

enable_ap_mode(file, nmcli, commandOk) == ModeFunction(file, "ap", nmcli, commandOk)

enable_wifi_mode(file, nmcli, commandOk) == ModeFunction(file, "wifi", nmcli, commandOk)

\* one run of the script
RunScript(s, root, nmcli, commandOk) ==
    IF ~root
    THEN [ s EXCEPT !.log = Append(@,
             [ root |-> FALSE, nmcli |-> nmcli, found |-> "", selected |-> "",
               status |-> 1, before |-> s.stateFile, after |-> s.stateFile,
               banner |-> "" ]) ]
    ELSE LET CURRENT_MODE == get_current_mode(s.stateFile)
             selected == IF CURRENT_MODE = "wifi" THEN "ap" ELSE "wifi"
             result == IF CURRENT_MODE = "wifi"
                          THEN enable_ap_mode(s.stateFile, nmcli, commandOk)
                          ELSE enable_wifi_mode(s.stateFile, nmcli, commandOk)
         IN  [ stateFile |-> result.file,
               log |-> Append(s.log,
                 [ root |-> TRUE, nmcli |-> nmcli, found |-> CURRENT_MODE,
                   selected |-> selected, status |-> result.status,
                   before |-> s.stateFile, after |-> result.file,
                   banner |-> get_current_mode(result.file) ]) ]

InitScript ==
    /\ pc = "main"
    /\ display = "none"
    /\ cpuHistory = <<>>
    /\ prevNetSent = 0
    /\ prevNetRecv = 0
    /\ selectedProcess = 0
    /\ listRect = <<0, 0>>
    /\ listRows = <<>>
    /\ netRows = <<>>
    /\ startIdx = 0
    /\ endIdx = 0
    /\ tableLength = 0
    /\ screen = <<>>
    /\ lastEvent = "none"
    /\ redrawn = FALSE
    /\ pushes = 0
    /\ ticker = NoTicker
    /\ host = NoHost
    /\ snapshot = NoSnapshot
    /\ currentView = 0
    /\ script \in { [ stateFile |-> f, log |-> <<>> ] : f \in StateFiles }

Run ==
    /\ Len(script.log) < MaxRuns
    /\ \E root, nmcli, commandOk \in BOOLEAN :
         script' = RunScript(script, root, nmcli, commandOk)
    /\ UNCHANGED <<pc, display, cpuHistory, prevNetSent, prevNetRecv, selectedProcess,
                   listRect, listRows, netRows, startIdx, endIdx, tableLength, screen,
                   lastEvent, redrawn, pushes, ticker, host, snapshot, currentView>>

NextScript == Run
SpecScript == InitScript /\ [][NextScript]_vars

---------------------------------------------------------------------------
(* getAllProcesses' port extraction on its own: the loop over one          *)
(* process's connections, on every short sequence of connections.  A       *)
(* connection is its local port; port 0 is a connection without one.       *)

\* a test that keeps a port each time it is seen
KeepPortEveryTime(port, portMap) == port > 0

\* if conn.Laddr.Port > 0 && !portMap[conn.Laddr.Port]
KeepPort(port, portMap) == port > 0 /\ port \notin portMap

\* the loop "for _, conn := range connections", from the connections still
\* to visit, the ports appended so far and the keys of portMap
RECURSIVE PortsLoop(_, _, _)
PortsLoop(connections, ports, portMap) ==
    IF connections = <<>> THEN ports
    ELSE LET port == Head(connections)
         IN  IF KeepPort(port, portMap)
             THEN PortsLoop(Tail(connections), Append(ports, port), portMap \cup {port})
             ELSE PortsLoop(Tail(connections), ports, portMap)

\* the Connections and Ports fields of the ProcessInfo
ConnectionFields(connections) ==
    [ Connections |-> Len(connections), Ports |-> PortsLoop(connections, <<>>, {}) ]

\* local ports of the connections drawn
LocalPorts == {0, 80, 443}

ConnectionLists == UNION { [1..n -> LocalPorts] : n \in 0..MaxConnections }

InitPorts ==
    /\ pc = "call"
    /\ display = "none"
    /\ cpuHistory = <<>>
    /\ prevNetSent = 0
    /\ prevNetRecv = 0
    /\ selectedProcess = 0
    /\ listRect = <<0, 0>>
    /\ listRows = <<>>
    /\ netRows = <<>>
    /\ startIdx = 0
    /\ endIdx = 0
    /\ tableLength = 0
    /\ screen = <<>>
    /\ lastEvent = "none"
    /\ redrawn = FALSE
    /\ pushes = 0
    /\ ticker = NoTicker
    /\ host \in { [cpuBase |-> 0, connections |-> c] : c \in ConnectionLists }
    /\ snapshot = NoSnapshot
    /\ currentView = 0
    /\ script = NoScript

ExtractPorts ==
    /\ pc = "call"
    /\ snapshot' = ConnectionFields(host.connections)
    /\ pc' = "return"
    /\ lastEvent' = "ports"
    /\ UNCHANGED <<display, cpuHistory, prevNetSent, prevNetRecv, selectedProcess,
                   listRect, listRows, netRows, startIdx, endIdx, tableLength,
                   screen, redrawn, pushes, ticker, host, currentView, script>>

NextPorts == ExtractPorts
SpecPorts == InitPorts /\ [][NextPorts]_vars

---------------------------------------------------------------------------
(* The compact three-view program: one list widget that shows the system  *)
(* view, the process view or the network view; Tab goes to the next view.  *)

\* the views, as UpdateStats switches on them
SystemView == 0
ProcessView == 1
NetworkView == 2
ViewCount == 3

\* UpdateStats calls the model counts in the compact program
MaxCompactRefresh == 7

\* InitWidgets: mainList.SetRect(0, 0, 30, 30)
CompactListRect == <<0, 30>>

\* the snapshots of the compact program: scalars and table length both change
CompactEnv ==
    [ snapshots |-> { getSystemStats(r, n) : r \in Readings, n \in {0, 2, 5} },
      limit |-> MaxCompactRefresh,
      capped |-> TRUE ]

\* updateSystemView: the rows of the system view
updateSystemView(stats) ==
    << <<"CPU", calculateAverage(stats.CPUPercent)>> >>

\* updateNetworkView: the rates against the baseline, which becomes the
\* snapshot's counters
updateNetworkView(stats, prevSent, prevRecv) ==
    [ prevNetSent |-> stats.NetSent,
      prevNetRecv |-> stats.NetRecv,
      Rows |-> << <<"Total Upload", bytesToMB(stats.NetSent)>>,
                  <<"Total Download", bytesToMB(stats.NetRecv)>>,
                  <<"Upload", bytesToKB(NetDiff(stats.NetSent, prevSent))>>,
                  <<"Download", bytesToKB(NetDiff(stats.NetRecv, prevRecv))>> >> ]

\* a refresh that runs the network view's update whatever view is shown, and
\* puts the rows of the current view in the list
CompactUpdateStatsEveryView(view, sel, stats, prevSent, prevRecv, oldStart, oldEnd) ==
    LET proc == updateProcessView(sel, stats, oldStart, oldEnd)
        net  == updateNetworkView(stats, prevSent, prevRecv)
    IN  [ selectedProcess |-> IF view = ProcessView THEN proc.selectedProcess ELSE sel,
          prevNetSent |-> net.prevNetSent,
          prevNetRecv |-> net.prevNetRecv,
          startIdx |-> IF view = ProcessView THEN proc.startIdx ELSE oldStart,
          endIdx   |-> IF view = ProcessView THEN proc.endIdx ELSE oldEnd,
          Rows |-> CASE view = SystemView  -> updateSystemView(stats)
                     [] view = ProcessView -> proc.Rows
                     [] view = NetworkView -> net.Rows ]

\* UpdateStats of the compact program: the update of the current view only
CompactUpdateStats(view, sel, stats, prevSent, prevRecv, oldStart, oldEnd) ==
    LET proc == updateProcessView(sel, stats, oldStart, oldEnd)
        net  == updateNetworkView(stats, prevSent, prevRecv)
    IN  CASE view = SystemView ->
               [ selectedProcess |-> sel,
                 prevNetSent |-> prevSent, prevNetRecv |-> prevRecv,
                 startIdx |-> oldStart, endIdx |-> oldEnd,
                 Rows |-> updateSystemView(stats) ]
          [] view = ProcessView ->
               [ selectedProcess |-> proc.selectedProcess,
                 prevNetSent |-> prevSent, prevNetRecv |-> prevRecv,
                 startIdx |-> proc.startIdx, endIdx |-> proc.endIdx,
                 Rows |-> proc.Rows ]
          [] view = NetworkView ->
               [ selectedProcess |-> sel,
                 prevNetSent |-> net.prevNetSent, prevNetRecv |-> net.prevNetRecv,
                 startIdx |-> oldStart, endIdx |-> oldEnd,
                 Rows |-> net.Rows ]

\* d.UpdateStats(); d.Render() with the view and the cursor the handler has set
CompactRefresh(view, sel, stats) ==
    LET d == CompactUpdateStats(view, sel, stats, prevNetSent, prevNetRecv,
                                startIdx, endIdx)
    IN  /\ selectedProcess' = d.selectedProcess
        /\ prevNetSent' = d.prevNetSent
        /\ prevNetRecv' = d.prevNetRecv
        /\ startIdx' = d.startIdx
        /\ endIdx' = d.endIdx
        /\ listRows' = d.Rows
        /\ tableLength' = Len(stats.AllProcesses)
        /\ pushes' = pushes + 1
        /\ RenderAfterUpdate
        /\ redrawn' = TRUE

\* a handler that does nothing to the dashboard
CompactNoRefresh ==
    /\ redrawn' = FALSE
    /\ UNCHANGED <<selectedProcess, prevNetSent, prevNetRecv, startIdx, endIdx,
                   listRows, tableLength, pushes, screen>>

\* what no handler of the compact program's loop touches
CompactFrame ==
    UNCHANGED <<pc, display, cpuHistory, netRows, ticker, host, snapshot, script>>

InitCompact == Init

\* main: ui.Init succeeds; NewDashboard, InitWidgets, UpdateStats, Render
CompactStart ==
    /\ pc = "main"
    /\ pc' = "loop"
    /\ display' = uiInit(display)
    /\ currentView' = SystemView
    /\ listRect' = CompactListRect
    /\ \E stats \in CompactEnv.snapshots :
         LET d == CompactUpdateStats(SystemView, 0, stats, 0, 0, 0, 0)
         IN  /\ selectedProcess' = d.selectedProcess
             /\ prevNetSent' = d.prevNetSent
             /\ prevNetRecv' = d.prevNetRecv
             /\ startIdx' = d.startIdx
             /\ endIdx' = d.endIdx
             /\ listRows' = d.Rows
             /\ tableLength' = Len(stats.AllProcesses)
    /\ pushes' = 1
    /\ RenderAfterUpdate
    /\ redrawn' = TRUE
    /\ lastEvent' = "start"
    /\ UNCHANGED <<cpuHistory, netRows, ticker, host, snapshot, script>>

\* case <-ticker.C
CompactTick ==
    /\ pc = "loop"
    /\ pushes < CompactEnv.limit
    /\ \E stats \in CompactEnv.snapshots :
         CompactRefresh(currentView, selectedProcess, stats)
    /\ lastEvent' = "tick"
    /\ UNCHANGED <<currentView, listRect>>
    /\ CompactFrame

\* a switch that goes two views on
NextViewSkipsOne(view) == (view + 2) % ViewCount

\* d.currentView = (d.currentView + 1) % 3
NextView(view) == (view + 1) % ViewCount

\* case "<Tab>"
CompactTab ==
    /\ pc = "loop"
    /\ pushes < CompactEnv.limit
    /\ currentView' = NextView(currentView)
    /\ \E stats \in CompactEnv.snapshots :
         CompactRefresh(NextView(currentView), selectedProcess, stats)
    /\ lastEvent' = "<Tab>"
    /\ UNCHANGED listRect
    /\ CompactFrame

\* case "<Up>"
CompactUp ==
    /\ pc = "loop"
    /\ IF currentView = ProcessView /\ selectedProcess > 0
       THEN /\ pushes < CompactEnv.limit
            /\ \E stats \in CompactEnv.snapshots :
                 CompactRefresh(currentView, selectedProcess - 1, stats)
       ELSE CompactNoRefresh
    /\ lastEvent' = "<Up>"
    /\ UNCHANGED <<currentView, listRect>>
    /\ CompactFrame

\* case "<Down>": in the process view a snapshot is fetched for its table
\* length; UpdateStats then fetches its own
CompactDown ==
    /\ pc = "loop"
    /\ IF currentView = ProcessView
       THEN \E stats \in CompactEnv.snapshots :
              IF selectedProcess < Len(stats.AllProcesses) - 1
              THEN /\ pushes < CompactEnv.limit
                   /\ \E fresh \in CompactEnv.snapshots :
                        CompactRefresh(currentView, selectedProcess + 1, fresh)
              ELSE /\ redrawn' = FALSE
                   /\ tableLength' = Len(stats.AllProcesses)
                   /\ UNCHANGED <<selectedProcess, prevNetSent, prevNetRecv,
                                  startIdx, endIdx, listRows, pushes, screen>>
       ELSE CompactNoRefresh
    /\ lastEvent' = "<Down>"
    /\ UNCHANGED <<currentView, listRect>>
    /\ CompactFrame

\* case "<Resize>": handleResize sets the rectangle, clears and renders
CompactResize ==
    /\ pc = "loop"
    /\ \E height \in ResizeHeights : listRect' = <<0, height>>
    /\ Render
    /\ redrawn' = TRUE
    /\ lastEvent' = "<Resize>"
    /\ UNCHANGED <<selectedProcess, prevNetSent, prevNetRecv, startIdx, endIdx,
                   listRows, tableLength, pushes, currentView>>
    /\ CompactFrame

NextCompact ==
    \/ InitFails
    \/ CompactStart
    \/ CompactTick
    \/ CompactTab
    \/ CompactUp
    \/ CompactDown
    \/ CompactResize
    \/ Quit

SpecCompact == InitCompact /\ [][NextCompact]_vars

---------------------------------------------------------------------------
(* The two process-list functions on their own: one call of                *)
(* updateAllProcessList or updateProcessView from any cursor, any table    *)
(* length and any widget height.                                           *)

\* terminal heights whose list rectangles give visibleHeight 1, 1, 2, 3, 10,
\* and 14 and 17, where Inner.Dy() - 2 is -1 and -2 (it is 0 at 13)
WindowHeights == {13, 14, 17, 23, 25, 27, 41}

InitWindow ==
    /\ pc = "call"
    /\ display = "open"
    /\ cpuHistory = [i \in 1..historySize |-> 0]
    /\ prevNetSent = 0
    /\ prevNetRecv = 0
    /\ selectedProcess \in -1..MaxWindowTable
    /\ listRect \in {InitialListRect} \cup {ResizedListRect(h) : h \in WindowHeights}
    /\ listRows = <<>>
    /\ netRows = <<>>
    /\ startIdx = 0
    /\ endIdx = 0
    /\ tableLength \in 0..MaxWindowTable
    /\ screen = <<>>
    /\ lastEvent = "none"
    /\ redrawn = FALSE
    /\ pushes = 0
    /\ ticker = NoTicker
    /\ host = NoHost
    /\ snapshot = NoSnapshot
    /\ currentView = 0
    /\ script = NoScript

WindowFrame ==
    UNCHANGED <<display, cpuHistory, prevNetSent, prevNetRecv, listRect, netRows,
                tableLength, screen, redrawn, pushes, ticker, host, snapshot, currentView, script>>

CallUpdateAllProcessList ==
    /\ pc = "call"
    /\ LET list == updateAllProcessList(selectedProcess,
                       getSystemStats(IdleReading, tableLength), listRect,
                       startIdx, endIdx)
       IN  /\ selectedProcess' = list.selectedProcess
           /\ listRows' = list.Rows
           /\ startIdx' = list.startIdx
           /\ endIdx' = list.endIdx
           /\ pc' = IF Panicked(list.Rows) THEN "panic" ELSE "return"
    /\ lastEvent' = "updateAllProcessList"
    /\ WindowFrame

CallUpdateProcessView ==
    /\ pc = "call"
    /\ LET list == updateProcessView(selectedProcess,
                       getSystemStats(IdleReading, tableLength), startIdx, endIdx)
       IN  /\ selectedProcess' = list.selectedProcess
           /\ listRows' = list.Rows
           /\ startIdx' = list.startIdx
           /\ endIdx' = list.endIdx
           /\ pc' = IF Panicked(list.Rows) THEN "panic" ELSE "return"
    /\ lastEvent' = "updateProcessView"
    /\ WindowFrame

NextWindow == CallUpdateAllProcessList \/ CallUpdateProcessView
SpecWindow == InitWindow /\ [][NextWindow]_vars

---------------------------------------------------------------------------
(* Properties *)

\* visibleHeight as updateAllProcessList would compute it now
CurrentVisibleHeight == VisibleHeight(InnerDy(listRect))

\* the loop has started and the last event, if any, has been handled
EventHandled == pc \in {"loop", "exit"}

RefreshEvents == {"start", "tick", "r"}

NavigationEvents == {"<Up>", "<Down>", "<PageUp>", "<PageDown>", "<Home>", "<End>"}

\* C1: after every handled event, if the table has at least one row the cursor
\* is inside it: 0 <= selectedProcess < tableLength.
C1_CursorInsideTable ==
    (EventHandled /\ tableLength > 0) =>
        (0 <= selectedProcess /\ selectedProcess < tableLength)

\* one of the two process-list functions has returned
WindowComputed == lastEvent \in {"updateAllProcessList", "updateProcessView"}

\* the visibleHeight that call used
WindowHeightUsed ==
    IF lastEvent = "updateProcessView" THEN CompactVisibleHeight
    ELSE CurrentVisibleHeight

\* C2: after the window computation over a non-empty table, from any cursor and
\* any widget height, 0 <= startIdx, endIdx <= table length, the window has at
\* most visibleHeight rows and it contains the cursor.
C2_WindowInvariants ==
    (WindowComputed /\ tableLength >= 1) =>
        /\ startIdx >= 0
        /\ endIdx <= tableLength
        /\ endIdx - startIdx <= WindowHeightUsed
        /\ startIdx <= selectedProcess
        /\ selectedProcess < endIdx

\* C2 witness: the full dashboard's window scrolled to the end of a table
\* longer than the widget (5 rows, 3 visible, cursor on the last).
C2_Witness ==
    /\ lastEvent = "updateAllProcessList"
    /\ tableLength = 5
    /\ CurrentVisibleHeight = 3
    /\ selectedProcess = 4
    /\ startIdx = 2
    /\ endIdx = 5

\* C3 as stated: both functions choose startIdx = max(0, cursor - visibleHeight + 1),
\* and a table shorter than the widget is shown whole from row 0.
C3_MinimalScrollEverywhere ==
    (WindowComputed /\ tableLength >= 1) =>
        /\ startIdx = Max(0, selectedProcess - WindowHeightUsed + 1)
        /\ tableLength < WindowHeightUsed => (startIdx = 0 /\ endIdx = tableLength)

\* C3 amended: updateAllProcessList chooses startIdx = max(0, cursor -
\* visibleHeight + 1); updateProcessView puts the cursor on the first visible row
\* unless that leaves the window short, startIdx = max(0, min(cursor, length - 27));
\* in both a table shorter than the widget is shown whole from row 0.
C3_ScrollPolicy ==
    (WindowComputed /\ tableLength >= 1) =>
        /\ lastEvent = "updateAllProcessList" =>
               startIdx = Max(0, selectedProcess - CurrentVisibleHeight + 1)
        /\ lastEvent = "updateProcessView" =>
               startIdx = Max(0, Min(selectedProcess, tableLength - CompactVisibleHeight))
        /\ tableLength < WindowHeightUsed => (startIdx = 0 /\ endIdx = tableLength)

\* C3 witness: the full dashboard scrolls only as far as needed (cursor 7 of 11
\* rows, 3 visible: rows 5..7 shown, the cursor on the last visible row).
C3_Witness ==
    /\ lastEvent = "updateAllProcessList"
    /\ tableLength = 11
    /\ CurrentVisibleHeight = 3
    /\ selectedProcess = 7
    /\ startIdx = 5
    /\ endIdx = 8

\* the rows updateAllProcessList emits for the current cursor and widget height
\* over a table of n processes
RowsFor(n) ==
    updateAllProcessList(selectedProcess, getSystemStats(IdleReading, n), listRect,
                         startIdx, endIdx).Rows

\* C4: once a navigation key has been handled and its redraw done, the rows on
\* screen are those reconciled for the new cursor (over some table the
\* environment returns): the new cursor's row is the highlighted one.
C4_RedrawShowsNewCursor ==
    (lastEvent \in NavigationEvents /\ redrawn) =>
        \E n \in TableLengths : screen = RowsFor(n)

\* C5: a refresh over a table of newLength >= 1 rows moves a cursor at or past
\* newLength to newLength - 1 with endIdx <= newLength, and leaves a cursor
\* below newLength where it is.
C5_TableRebuiltClamp ==
    [][ (lastEvent' \in RefreshEvents /\ tableLength' >= 1) =>
          /\ selectedProcess >= tableLength' =>
                (selectedProcess' = tableLength' - 1 /\ endIdx' <= tableLength')
          /\ selectedProcess < tableLength' => selectedProcess' = selectedProcess
      ]_vars

\* C6: <Down> moves the cursor to min(tableLength - 1, cursor + 1) and <PageDown>
\* to min(tableLength - 1, cursor + 10), tableLength being the length of the
\* table the handler just fetched, also when that table is shorter than the cursor.
\* (<Down> is stated for a table with at least one row: on the empty table the
\* key is a no-op, see C9.)
C6_DownAndPageDown ==
    [][ /\ (lastEvent' = "<Down>" /\ tableLength' >= 1) =>
              selectedProcess' = Min(tableLength' - 1, selectedProcess + 1)
        /\ lastEvent' = "<PageDown>" =>
              selectedProcess' = Min(tableLength' - 1, selectedProcess + PageStep)
      ]_vars

\* C7: <Up> moves the cursor to max(0, cursor - 1), <PageUp> to
\* max(0, cursor - 10) and <Home> to 0, whatever the table length.
C7_UpPageUpHome ==
    [][ /\ lastEvent' = "<Up>" => selectedProcess' = Max(0, selectedProcess - 1)
        /\ lastEvent' = "<PageUp>" => selectedProcess' = Max(0, selectedProcess - PageStep)
        /\ lastEvent' = "<Home>" => selectedProcess' = 0
      ]_vars

\* C8: <End> on a table of L >= 1 rows puts the cursor on L - 1, and the refresh
\* that follows over those L rows shows the window [max(0, L - visibleHeight), L)
\* with the cursor still on L - 1.
C8_EndThenReconcile ==
    [][ /\ (lastEvent' = "<End>" /\ tableLength' >= 1) =>
              selectedProcess' = tableLength' - 1
        /\ ( /\ lastEvent = "<End>"
             /\ tableLength >= 1
             /\ lastEvent' \in {"tick", "r"}
             /\ tableLength' = tableLength ) =>
              /\ selectedProcess' = tableLength - 1
              /\ startIdx' = Max(0, tableLength - CurrentVisibleHeight)
              /\ endIdx' = tableLength
      ]_vars

\* C8 witness: the scenario's state after <End>: 5 rows, 3 visible, the window
\* still [0,3) from cursor 0, the cursor now on row 4.
C8_Witness ==
    /\ lastEvent = "<End>"
    /\ tableLength = 5
    /\ CurrentVisibleHeight = 3
    /\ selectedProcess = 4
    /\ startIdx = 0
    /\ endIdx = 3

\* C9: on an empty table <Down> leaves the cursor where it is, and a refresh
\* emits and draws exactly the placeholder row, reading no table element,
\* whatever the cursor is.
C9_EmptyTable ==
    [][ /\ (lastEvent' = "<Down>" /\ tableLength' = 0) =>
              selectedProcess' = selectedProcess
        /\ (lastEvent' \in RefreshEvents /\ tableLength' = 0) =>
              /\ listRows' = << <<"No processes found">> >>
              /\ screen' = listRows'
              /\ pc' # "panic"
      ]_vars

\* C9 witness: a tick found the table empty while the cursor stood on row 4.
C9_Witness ==
    /\ lastEvent = "tick"
    /\ tableLength = 0
    /\ selectedProcess = 4
    /\ listRows = << <<"No processes found">> >>

\* C10: from NewDashboard on, through every refresh, cpuHistory holds exactly
\* historySize samples.
C10_HistoryLength ==
    pc \in {"loop", "exit", "panic"} => Len(cpuHistory) = historySize

\* C10 witness: two refreshes after the first have pushed their averages.
C10_Witness ==
    /\ pc = "loop"
    /\ pushes = 3
    /\ Len(cpuHistory) = historySize
    /\ cpuHistory[historySize] = 80
    /\ cpuHistory[historySize - 1] = 50

\* the average the k-th UpdateStats pushed on the climbing machine
PushedValue(k) == calculateAverage(ClimbingReading(k).CPUPercent)

\* C11: once at least historySize values have been pushed, the buffer holds
\* the historySize most recent pushed values in push order, oldest first.
C11_LastPushedValues ==
    (pc \in {"loop", "exit"} /\ pushes >= historySize)
        => cpuHistory = [i \in 1..historySize |-> PushedValue(pushes - historySize + i)]

\* more pushes than the capacity: the first samples have been evicted
C11_Witness ==
    /\ pc = "loop"
    /\ pushes = historySize + 2
    /\ cpuHistory[1] = PushedValue(3)
    /\ cpuHistory[historySize] = PushedValue(historySize + 2)

\* a handler has started and not returned
TickRunning == pc \in {"tick:push", "tick:list", "tick:render"}

HandlerRunning == TickRunning \/ pc = "<PageDown>:clamp"

\* C12: one event is handled at a time.  While a handler is running (the
\* cursor moved but not yet bound-checked, or a snapshot fetched but not yet
\* applied and drawn) the only step is that handler's next statement: no
\* other event is taken, so no refresh touches the widgets in the middle of
\* a navigation command and no navigation command moves the cursor in the
\* middle of a refresh; and a handler is only ever entered from the select.
C12_Serialized ==
    [][ /\ HandlerRunning => lastEvent' = lastEvent
        /\ pc = "<PageDown>:clamp" =>
               /\ pc' = "loop"
               /\ UNCHANGED <<cpuHistory, listRows, netRows, prevNetSent, prevNetRecv,
                              pushes, snapshot>>
               /\ selectedProcess' = PageDownTarget(selectedProcess - PageStep, tableLength)
        /\ (TickRunning /\ pc' # "panic") =>
               /\ pc' = AfterStatement(pc)
               /\ snapshot' = snapshot
               /\ selectedProcess' \in
                      {selectedProcess, ClampSelected(selectedProcess, Len(snapshot.AllProcesses))}
        /\ (pc' \in {"tick:push", "<PageDown>:clamp"} /\ pc' # pc) => pc = "loop"
      ]_vars

\* a navigation command half applied: the cursor is past the end of the table
\* fetched by the same handler, the bound check still to come
C12_Witness ==
    /\ pc = "<PageDown>:clamp"
    /\ tableLength = 2
    /\ selectedProcess >= PageStep
    /\ pushes >= 2

\* ticks that fell due and are neither in the channel nor received
TicksLost(t) == t.produced - t.received - t.pending

\* C13 as stated: no tick is ever lost, every tick that fell due is either
\* still queued or has been processed as a refresh.
C13_NoTickLost == TicksLost(ticker) = 0

\* C13 as the program behaves: the channel keeps at most TickerBuffer ticks;
\* a tick that falls due leaves the channel full, so the first tick of a busy
\* spell is kept; a tick is lost only when more than the free room of the
\* channel fall due in one step; every received tick is one tick-triggered
\* refresh, and the refreshes never exceed the ticks produced.
C13_TickerKeepsOne ==
    [][ LET due  == ticker'.produced - ticker.produced
            got  == ticker'.received - ticker.received
            room == TickerBuffer - (ticker.pending - got)
        IN  /\ ticker'.pending \in 0..TickerBuffer
            /\ ticker'.received + ticker'.pending <= ticker'.produced
            /\ got \in {0, 1}
            /\ got = 1 => (ticker.pending > 0 /\ lastEvent' = "tick" /\ redrawn')
            /\ due > 0 => ticker'.pending = TickerBuffer
            /\ TicksLost(ticker') - TicksLost(ticker) = Max(0, due - room)
      ]_vars

\* two ticks fell due during one refresh, one of them was dropped, and the
\* one that was kept has been processed
C13_Witness ==
    /\ pc = "loop"
    /\ lastEvent = "tick"
    /\ ticker.produced = 3
    /\ ticker.received = 2
    /\ ticker.pending = 0

\* C14: the display is acquired once, by main before the loop starts, and is
\* held while the loop runs; handling Quit ends the loop, releases the display
\* in the same step, and nothing is processed afterwards, so the display is
\* never released twice nor acquired again.
C14_QuitReleasesDisplay ==
    [][ /\ display' # display =>
               \/ (pc = "main" /\ display = "none" /\ display' = "open")
               \/ (pc = "loop" /\ display = "open" /\ display' = "closed"
                      /\ lastEvent' = "q")
        /\ pc' = "loop" => display' = "open"
        /\ (pc = "loop" /\ lastEvent' = "q") => (pc' = "exit" /\ display' = "closed")
        /\ pc = "exit" => UNCHANGED vars
      ]_vars

\* Quit handled after the loop has processed ticks and keys
C14_Witness ==
    /\ pc = "exit"
    /\ lastEvent = "q"
    /\ display = "closed"
    /\ pushes >= 2
    /\ selectedProcess > 0

\* C15: after a <Resize> has been handled the process rows on the screen are
\* a window reconciled against the new visible height: at most visibleHeight
\* rows, the window no longer than visibleHeight, the cursor inside it.
C15_ResizeReconciles ==
    (lastEvent = "<Resize>" /\ Len(screen) > HeaderRows) =>
        /\ Len(screen) - HeaderRows <= CurrentVisibleHeight
        /\ endIdx - startIdx <= CurrentVisibleHeight
        /\ startIdx <= selectedProcess
        /\ selectedProcess < endIdx

CounterDelta(current, baseline) ==
    IF current >= baseline THEN current - baseline
                           ELSE current - baseline + CounterModulus

\* C17: a refresh reports as upload (download) speed the snapshot's sent
\* (received) counter minus the baseline kept from the refresh before, over
\* 1024, and leaves the snapshot's counters as the new baseline.
C17_NetworkRate ==
    [][ (pc = "loop" /\ lastEvent' \in {"tick", "r"}) =>
            \E stats \in SamplingEnv.snapshots :
                /\ netRows'[3] = [num |-> CounterDelta(stats.NetSent, prevNetSent),
                                  den |-> 1024]
                /\ netRows'[4] = [num |-> CounterDelta(stats.NetRecv, prevNetRecv),
                                  den |-> 1024]
                /\ prevNetSent' = stats.NetSent
                /\ prevNetRecv' = stats.NetRecv
      ]_vars

\* the scenario: the sent counter read 1000, then 1500: the second refresh
\* reports (1500 - 1000) / 1024 and the baseline is 1500
C17_Witness ==
    /\ pc = "loop"
    /\ lastEvent \in {"tick", "r"}
    /\ pushes = 3
    /\ prevNetSent = 1500
    /\ netRows[3] = [num |-> 500, den |-> 1024]

\* getSystemStats has returned from a host whose process listing and memory
\* reading succeeded: the table was built from the whole listing
TableRebuilt ==
    lastEvent = "getSystemStats" /\ ~host.processesErr /\ ~host.memErr

\* how often a record occurs in a sequence
Occurrences(record, sequence) ==
    Cardinality({ i \in DOMAIN sequence : sequence[i] = record })

\* C18: the rebuilt table is a permutation of the listed processes (as many
\* entries, every record as often as it was listed, equal pids kept) and its
\* CPU values do not increase from first to last.
C18_SortedPermutation ==
    TableRebuilt =>
        LET table == snapshot.AllProcesses
            input == [i \in 1..Len(host.processes) |-> ProcessInfo(host.processes[i])]
        IN  /\ Len(table) = Len(input)
            /\ \A i \in DOMAIN input :
                   Occurrences(input[i], table) = Occurrences(input[i], input)
            /\ \A i \in DOMAIN table : Occurrences(table[i], input) > 0
            /\ \A i \in 1..(Len(table) - 1) : table[i].CPU >= table[i + 1].CPU

\* three listed processes, two of them with the same pid, listed in
\* increasing CPU order
C18_Witness ==
    /\ TableRebuilt
    /\ host.processes = << [Pid |-> 1, CPUPercent |-> 0], [Pid |-> 2, CPUPercent |-> 5],
                           [Pid |-> 2, CPUPercent |-> 5] >>
    /\ snapshot.AllProcesses[3] = [PID |-> 1, CPU |-> 0]

\* C19: the rebuild is stable: the table is the listing rearranged so that
\* records with equal CPU keep the order they were listed in.
C19_StableRebuild ==
    TableRebuilt =>
        LET table == snapshot.AllProcesses
            input == [i \in 1..Len(host.processes) |-> ProcessInfo(host.processes[i])]
        IN  \E perm \in Permutations(1..Len(input)) :
                /\ \A i \in DOMAIN table : table[i] = input[perm[i]]
                /\ \A i, j \in DOMAIN table :
                       (i < j /\ table[i].CPU = table[j].CPU) => perm[i] < perm[j]

\* the sub-readings of a sample that failed on the host
ReadingFailed ==
    [ cpu         |-> host.cpuErr,
      memory      |-> host.memErr,
      disk        |-> host.diskErr,
      temperature |-> host.temperature.kind # "number",
      hostInfo    |-> host.hostErr,
      load        |-> host.loadErr,
      network     |-> host.netErr \/ Len(host.net) = 0,
      processes   |-> host.processesErr ]

\* C20: whatever subset of the sub-readings fails, getSystemStats returns a
\* snapshot in which the fields of the failed readings hold their zero value
\* and every other field holds what was read.
C20_ExactlyFailedFieldsZero ==
    lastEvent = "getSystemStats" =>
        /\ snapshot.CPUPercent = IF ReadingFailed.cpu THEN <<>> ELSE host.cpu
        /\ snapshot.MemPercent = IF ReadingFailed.memory THEN 0 ELSE host.mem
        /\ snapshot.DiskPercent = IF ReadingFailed.disk THEN 0 ELSE host.disk
        /\ snapshot.Temperature.num =
               IF ReadingFailed.temperature THEN 0 ELSE host.temperature.value
        /\ snapshot.Uptime = IF ReadingFailed.hostInfo THEN 0 ELSE host.uptime
        /\ snapshot.ProcessCount = IF ReadingFailed.hostInfo THEN 0 ELSE host.procs
        /\ snapshot.LoadAvg = IF ReadingFailed.load THEN <<>> ELSE host.load
        /\ snapshot.NetSent = IF ReadingFailed.network THEN 0 ELSE host.net[1].BytesSent
        /\ snapshot.NetRecv = IF ReadingFailed.network THEN 0 ELSE host.net[1].BytesRecv
        /\ Len(snapshot.AllProcesses) =
               IF ReadingFailed.processes THEN 0 ELSE Len(host.processes)

\* C21: when ui.Init fails the process ends there: as long as the display
\* was never acquired no dashboard exists, nothing was sampled or drawn and no
\* event was handled, the loop is never entered, and after the fatal exit
\* nothing happens any more.
C21_InitFailureIsFatal ==
    [][ /\ display' = "none" =>
               /\ pc' \in {"main", "fatal"}
               /\ cpuHistory' = <<>>
               /\ pushes' = 0
               /\ listRows' = <<>>
               /\ screen' = <<>>
               /\ lastEvent' = "none"
               /\ ~redrawn'
        /\ pc' = "fatal" => (pc \in {"main", "fatal"} /\ display' = "none")
        /\ pc = "fatal" => UNCHANGED vars
      ]_vars

\* ui.Init has failed
C21_Witness ==
    /\ pc = "fatal"
    /\ display = "none"

\* the widget is too low for a single process row: Inner.Dy() - 2 <= 0
DegenerateHeight == InnerDy(listRect) - HeaderRows <= 0

\* C22: when the computed visibleHeight is 0 or negative updateAllProcessList
\* works with visibleHeight 1: over a non-empty table the window is the one
\* row at the (clamped) cursor, and that row is what is emitted.
C22_DegenerateHeight ==
    (lastEvent = "updateAllProcessList" /\ DegenerateHeight /\ tableLength >= 1) =>
        /\ pc = "return"
        /\ startIdx = selectedProcess
        /\ endIdx = selectedProcess + 1
        /\ listRows = << <<"header">>, <<"separator">>,
                         <<"row", Table(tableLength)[selectedProcess + 1].PID, TRUE>> >>

\* a widget whose Inner.Dy() - 2 is negative, a cursor in the middle of a table
C22_Witness ==
    /\ lastEvent = "updateAllProcessList"
    /\ InnerDy(listRect) - HeaderRows < 0
    /\ tableLength = 7
    /\ selectedProcess = 4
    /\ Len(listRows) = 3

\* a run that got past the root check and whose mode function returned 0
Successful(run) == run.root /\ run.status = 0

\* C23: every run past the root check reads the mode from the state file
\* (a missing file is "wifi"), goes for "ap" when it found "wifi" and for
\* "wifi" when it found anything else; a successful run leaves the state file
\* naming the mode it went for; and two successful runs in a row that start
\* from "wifi" or "ap" leave the state file naming the mode the first found.
C23_ScriptToggle ==
    /\ \A k \in DOMAIN script.log :
          LET run == script.log[k]
          IN  run.root =>
                /\ run.found = (IF run.before.exists THEN run.before.content ELSE "wifi")
                /\ run.selected = (IF run.found = "wifi" THEN "ap" ELSE "wifi")
                /\ Successful(run) => run.after = [exists |-> TRUE, content |-> run.selected]
    /\ \A k \in 1..(Len(script.log) - 1) :
          LET first == script.log[k]
              second == script.log[k + 1]
          IN  (Successful(first) /\ Successful(second) /\ first.found \in {"wifi", "ap"})
                 => second.after = [exists |-> TRUE, content |-> first.found]
    /\ script.log # <<>> => script.stateFile = script.log[Len(script.log)].after

\* no state file at first; two successful runs, the first through nmcli:
\* access-point mode, then back to client mode
C23_Witness ==
    /\ Len(script.log) = 2
    /\ ~script.log[1].before.exists
    /\ script.log[1].nmcli
    /\ Successful(script.log[1])
    /\ script.log[1].after.content = "ap"
    /\ Successful(script.log[2])
    /\ script.stateFile = [exists |-> TRUE, content |-> "wifi"]

\* C24: the cursor is never negative, whatever events arrive and whatever
\* table lengths the snapshots have.
C24_CursorNeverNegative == selectedProcess >= 0

\* what a navigation key at a boundary must leave alone
BoundaryFrame ==
    /\ UNCHANGED <<selectedProcess, listRows, screen, cpuHistory, prevNetSent, prevNetRecv>>
    /\ pc' = "loop"

\* C25: <Up> with the cursor on row 0, and <Down> with the cursor on the last
\* row of the table the handler fetched, change neither the cursor, nor the
\* emitted rows, nor the history, nor the network baseline, and the loop goes
\* on.
C25_BoundaryNoOp ==
    [][ /\ (pc = "loop" /\ lastEvent' = "<Up>" /\ selectedProcess = 0) => BoundaryFrame
        /\ (pc = "loop" /\ lastEvent' = "<Down>" /\ selectedProcess = tableLength' - 1)
               => BoundaryFrame
      ]_vars

\* <Down> handled with the cursor on the last of 5 rows: nothing was drawn
C25_Witness ==
    /\ pc = "loop"
    /\ lastEvent = "<Down>"
    /\ tableLength = 5
    /\ selectedProcess = 4
    /\ ~redrawn

\* the first position of a port among the connections
FirstSeen(port, connections) ==
    CHOOSE i \in DOMAIN connections :
        /\ connections[i] = port
        /\ \A j \in 1..(i - 1) : connections[j] # port

\* C26: the port list of a process holds every local port > 0 of its
\* connections exactly once and nothing else (no port 0), in the order in
\* which the ports first occur, and the connection count is the number of
\* connections, duplicates included.
C26_PortsDeduplicated ==
    lastEvent = "ports" =>
        LET connections == host.connections
            ports == snapshot.Ports
        IN  /\ snapshot.Connections = Len(connections)
            /\ \A i \in DOMAIN connections :
                   connections[i] > 0 =>
                       Cardinality({ k \in DOMAIN ports : ports[k] = connections[i] }) = 1
            /\ \A k \in DOMAIN ports :
                   /\ ports[k] > 0
                   /\ \E i \in DOMAIN connections : connections[i] = ports[k]
            /\ \A k, l \in DOMAIN ports :
                   k < l => FirstSeen(ports[k], connections) < FirstSeen(ports[l], connections)

\* connections on 443, 0, 80, 443: the ports are 443, 80 and the count is 4
C26_Witness ==
    /\ lastEvent = "ports"
    /\ host.connections = <<443, 0, 80, 443>>
    /\ snapshot = [Connections |-> 4, Ports |-> <<443, 80>>]

\* C27: a navigation key changes the cursor and nothing of the sampling
\* state: no history push, the network baseline and the widgets' rows as they
\* were.  The history is pushed only by the startup refresh, a tick or the r
\* key, and by each of them exactly once, so the pushes number 1 plus the
\* ticks plus the r keys handled.
C27_NavigationLeavesSampling ==
    [][ /\ (pc = "loop" /\ lastEvent' \in NavigationEvents) =>
               UNCHANGED <<cpuHistory, prevNetSent, prevNetRecv, pushes, listRows,
                           netRows, startIdx, endIdx, listRect>>
        /\ (cpuHistory' # cpuHistory \/ pushes' # pushes) =>
               lastEvent' \in RefreshEvents
        /\ (pc = "main" /\ pc' = "loop") => pushes' = 1
        /\ (pc = "loop" /\ lastEvent' \in {"tick", "r"}) =>
               /\ pushes' = pushes + 1
               /\ \E stats \in SamplingEnv.snapshots :
                      cpuHistory' = Append(Tail(cpuHistory),
                                           calculateAverage(stats.CPUPercent))
      ]_vars

\* <PageDown> handled after two refreshes that read traffic and load: the
\* baseline and the newest history value are still those of the last refresh
C27_Witness ==
    /\ pc = "loop"
    /\ lastEvent = "<PageDown>"
    /\ pushes = 2
    /\ prevNetSent = 1000
    /\ prevNetRecv = 3000
    /\ cpuHistory[historySize] = 50
    /\ netRows[3].num = 1000

\* C28: the history starts as historySize zeros, so after k <= historySize
\* pushes it is historySize - k zeros followed by the k pushed values in push
\* order; the first pushed value is at the front exactly when historySize
\* values have been pushed.  (Every pushed value of the climbing machine is
\* positive.)
C28_WarmUp ==
    (pc \in {"loop", "exit"} /\ pushes <= historySize) =>
        /\ cpuHistory = [i \in 1..historySize |->
                            IF i <= historySize - pushes THEN 0
                            ELSE PushedValue(pushes - historySize + i)]
        /\ (cpuHistory[1] = PushedValue(1)) <=> (pushes = historySize)
        /\ pushes < historySize => cpuHistory[1] = 0

\* twenty pushes: thirty zeros, then the first and the twentieth pushed value
C28_Witness ==
    /\ pc = "loop"
    /\ pushes = 20
    /\ cpuHistory[historySize - 20] = 0
    /\ cpuHistory[historySize - 19] = PushedValue(1)
    /\ cpuHistory[historySize] = PushedValue(20)

\* a refresh step whose snapshot's sent (received) counter is below the
\* baseline; the new baseline and the total row both show the counter read
SentWentBack ==
    pc = "loop" /\ lastEvent' \in {"tick", "r"} /\ netRows'[1].num < prevNetSent

RecvWentBack ==
    pc = "loop" /\ lastEvent' \in {"tick", "r"} /\ netRows'[2].num < prevNetRecv

\* C29: when the counter read is smaller than the baseline (the counter was
\* reset, or the read failed and left 0) the reported delta is
\* current - baseline taken modulo the width of the counters: positive, not
\* 0 and not negative; and the baseline becomes the counter read.
C29_WrapAround ==
    [][ /\ SentWentBack =>
               /\ netRows'[3].num = netRows'[1].num - prevNetSent + CounterModulus
               /\ netRows'[3].num > 0
               /\ netRows'[3].den = 1024
               /\ prevNetSent' = netRows'[1].num
        /\ RecvWentBack =>
               /\ netRows'[4].num = netRows'[2].num - prevNetRecv + CounterModulus
               /\ netRows'[4].num > 0
               /\ netRows'[4].den = 1024
               /\ prevNetRecv' = netRows'[2].num
      ]_vars

\* the sent counter read 1500, then a read failed and left 0: the delta is
\* the modulus less 1500 and the baseline is 0
C29_Witness ==
    /\ pc = "loop"
    /\ lastEvent \in {"tick", "r"}
    /\ pushes = 3
    /\ prevNetSent = 0
    /\ netRows[1].num = 0
    /\ netRows[3].num = CounterModulus - 1500

\* a step of the compact program's loop that ran UpdateStats
CompactRefreshed == pc = "loop" /\ pushes' = pushes + 1

\* C30: in the compact program the network baseline is changed only by a
\* refresh that runs while the network view is the current one, and the
\* cursor only by a handler that runs its refresh while the process view is
\* the current one.  A tick or key whose refresh runs in another view leaves
\* the baseline as it was, so the rate of the next network-view refresh is
\* taken against the counters of the last one (or 0); <Up> and <Down>
\* outside the process view change nothing and refresh nothing.
C30_OwnViewOnly ==
    [][ /\ currentView' # NetworkView => UNCHANGED <<prevNetSent, prevNetRecv>>
        /\ <<prevNetSent', prevNetRecv'>> # <<prevNetSent, prevNetRecv>>
               => CompactRefreshed /\ lastEvent' \in {"tick", "<Tab>"}
        /\ (CompactRefreshed /\ currentView' = NetworkView) =>
               /\ listRows'[3] = <<"Upload", bytesToKB(NetDiff(prevNetSent', prevNetSent))>>
               /\ listRows'[4] = <<"Download", bytesToKB(NetDiff(prevNetRecv', prevNetRecv))>>
        /\ currentView' # ProcessView => UNCHANGED selectedProcess
        /\ selectedProcess' # selectedProcess => CompactRefreshed
        /\ (lastEvent' \in {"<Up>", "<Down>"} /\ currentView # ProcessView) =>
               /\ ~CompactRefreshed
               /\ redrawn' = FALSE
               /\ UNCHANGED <<selectedProcess, prevNetSent, prevNetRecv, startIdx,
                              endIdx, tableLength, screen, currentView>>
      ]_vars

\* the cursor was moved to the second row in the process view; the network
\* view was refreshed at counter 1000, left, and entered again at counter
\* 1500 with every other view's refresh in between: the rate is 500, and a
\* <Down> pressed there has changed nothing
C30_Witness ==
    /\ pc = "loop"
    /\ currentView = NetworkView
    /\ lastEvent = "<Down>"
    /\ redrawn = FALSE
    /\ pushes = MaxCompactRefresh
    /\ selectedProcess = 1
    /\ prevNetSent = 1500
    /\ Len(listRows) = 4
    /\ listRows[3] = <<"Upload", bytesToKB(500)>>

\* the list holds the rows of the given view
ShowsView(rows, view) ==
    /\ Len(rows) > 0
    /\ CASE view = SystemView  -> rows[1][1] = "CPU"
         [] view = ProcessView -> rows[1][1] \in {"No processes found", "header"}
         [] view = NetworkView -> rows[1][1] = "Total Upload"
         [] OTHER -> FALSE

\* C31: in the compact program currentView is always 0, 1 or 2; a <Tab> sets
\* it to (currentView + 1) mod 3, then refreshes and draws the rows of the
\* view it has switched to; two more <Tab>s from there lead back to the view
\* the first was pressed in; no other event changes currentView.
C31_ViewSwitching ==
    [][ /\ currentView \in {0, 1, 2}
        /\ currentView' \in {0, 1, 2}
        /\ lastEvent' = "<Tab>" =>
               /\ currentView' = (currentView + 1) % 3
               /\ ((((currentView' + 1) % 3) + 1) % 3) = currentView
               /\ pushes' = pushes + 1
               /\ redrawn' = TRUE
               /\ ShowsView(listRows', currentView')
               /\ screen' = listRows'
        /\ lastEvent' # "<Tab>" => currentView' = currentView
      ]_vars

\* main, then <Tab> three times: the system view is shown again, refreshed
\* and drawn by the third <Tab>
C31_Witness ==
    /\ pc = "loop"
    /\ lastEvent = "<Tab>"
    /\ pushes = 4
    /\ currentView = SystemView
    /\ redrawn = TRUE
    /\ ShowsView(listRows, SystemView)
    /\ screen = listRows

\* the entry of the run that has just ended
LastRun(s) == s.log[Len(s.log)]

\* a step that is a run as root, with nmcli present, whose hotspot / connect
\* command failed
FailedRun ==
    /\ Len(script.log) < MaxRuns
    /\ script' = RunScript(script, TRUE, TRUE, FALSE)

\* C32: when nmcli is present and the mode-change command fails, the state
\* file is not written: it names the mode it named before, the banner
\* printed at the end of the run shows that mode, and the next run goes for
\* the same mode again.
C32_FailureKeepsMode ==
    [][ FailedRun =>
          /\ LastRun(script').status = 1
          /\ script'.stateFile = script.stateFile
          /\ get_current_mode(script'.stateFile) = get_current_mode(script.stateFile)
          /\ LastRun(script').banner = get_current_mode(script.stateFile)
          /\ LastRun(script').selected # LastRun(script').banner
          /\ \A nmcli, commandOk \in BOOLEAN :
               LastRun(RunScript(script', TRUE, nmcli, commandOk)).selected
                 = LastRun(script').selected
      ]_vars

\* a run for the access point failed with the state file naming wifi, and
\* the run after it went for the access point again
C32_Witness ==
    /\ Len(script.log) = 2
    /\ script.log[1].root /\ script.log[1].nmcli
    /\ script.log[1].status = 1
    /\ script.log[1].before = WriteState("wifi")
    /\ script.log[1].after = WriteState("wifi")
    /\ script.log[1].banner = "wifi"
    /\ script.log[1].selected = "ap"
    /\ script.log[2].root
    /\ script.log[2].found = "wifi"
    /\ script.log[2].selected = "ap"

====
